---- MODULE Spec2Model ----
(***************************************************************************)
(* Model of client/chained.go (getlantern/flashlight): one                 *)
(* ChainedServerInfo s, the balancer.Dialer built from it (DialFN, Check)  *)
(* and its bounded list of check targets (siteList, a buffered channel).   *)
(*                                                                         *)
(* Strings the code parses (host:port addresses) are sequences of          *)
(* one-character strings, so that net.SplitHostPort and strings.HasSuffix  *)
(* are computed, not assumed.                                              *)
(***************************************************************************)
EXTENDS Integers, Sequences, FiniteSets, Bags, TLC

VARIABLES
    s,        \* the ChainedServerInfo: PluggableTransport, AuthToken, checkTargets
    built,    \* TRUE once some Dialer call has returned a *balancer.Dialer
    checks,   \* bag of check() activations (caller and/or its withtimeout goroutine)
    ev,       \* the last call that returned or step that ran: what its caller observed
    ForceAuthToken,  \* the package variable: when not "", the token every server presents
    req,      \* the *http.Request handed to the OnRequest callback
    calls,    \* bag of calls that are inside initIfNecessary, add or get (the
              \* specifications that take these calls apart step by step)
    hist      \* history variable: what the specification at hand records of the run

vars == <<s, built, checks, ev, ForceAuthToken, req, calls, hist>>

----------------------------------------------------------------------------
(* Bounds of the model *)

\* occurrences of addresses other than A80 that may be resident or held by a
\* check at the same time (the balancer dials mostly one plain HTTP site)
MaxOther == 1
\* check() calls whose caller is still waiting in withtimeout.Do
MaxChecks == 1
\* OnRequest calls made with one request
MaxApply == 2
\* calls that are inside initIfNecessary, add or get at the same time
MaxCalls == 2
\* probes the history of a rotation keeps: the latest MaxHist
MaxHist == 20
\* withtimeout goroutines left running after their check() timed out
MaxOrphans == 1

----------------------------------------------------------------------------
(* Strings *)

Empty == <<>>

HasSuffix(str, suffix) ==
    /\ Len(str) >= Len(suffix)
    /\ SubSeq(str, Len(str) - Len(suffix) + 1, Len(str)) = suffix

\* index of the last / first occurrence of character c in str, 0 when absent
LastIndex(str, c) ==
    IF \E i \in 1..Len(str) : str[i] = c
    THEN CHOOSE i \in 1..Len(str) :
            /\ str[i] = c
            /\ \A j \in (i+1)..Len(str) : str[j] # c
    ELSE 0

IndexByte(str, c) ==
    IF \E i \in 1..Len(str) : str[i] = c
    THEN CHOOSE i \in 1..Len(str) :
            /\ str[i] = c
            /\ \A j \in 1..(i-1) : str[j] # c
    ELSE 0

\* net.SplitHostPort: [host, port, e]; e is TRUE when the address is malformed
SplitErr == [host |-> Empty, port |-> Empty, e |-> TRUE]

SplitHostPort(hostport) ==
    LET n == Len(hostport)
        i == LastIndex(hostport, ":")
    IN  IF i = 0 THEN SplitErr                       \* missing port
        ELSE IF hostport[1] = "["
        THEN LET end == IndexByte(hostport, "]")
             IN  IF end = 0 THEN SplitErr            \* missing ']'
                 ELSE IF end = n THEN SplitErr       \* missing port
                 ELSE IF end + 1 # i THEN SplitErr   \* too many colons / missing port
                 ELSE IF IndexByte(SubSeq(hostport, 2, n), "[") # 0 THEN SplitErr
                 ELSE IF IndexByte(SubSeq(hostport, end + 1, n), "]") # 0 THEN SplitErr
                 ELSE [host |-> SubSeq(hostport, 2, end - 1),
                       port |-> SubSeq(hostport, i + 1, n),
                       e    |-> FALSE]
        ELSE LET host == SubSeq(hostport, 1, i - 1)
             IN  IF IndexByte(host, ":") # 0 THEN SplitErr   \* too many colons
                 ELSE IF IndexByte(hostport, "[") # 0 THEN SplitErr
                 ELSE IF IndexByte(hostport, "]") # 0 THEN SplitErr
                 ELSE [host |-> host,
                       port |-> SubSeq(hostport, i + 1, n),
                       e    |-> FALSE]

----------------------------------------------------------------------------
(* Program constants *)

Port80 == <<"8", "0">>

internalSiteSuffixes ==
    << <<"g","e","t","l","a","n","t","e","r","n",".","o","r","g">>,
       <<"g","e","t","i","a","n","t","e","m",".","o","r","g">>,
       <<"l","a","n","t","e","r","n",".","i","o">> >>

\* the size Dialer passes to initIfNecessary
CheckTargetsSize == 10

\* resp.StatusCode < 500 means reachable
ReachableBelow == 500

----------------------------------------------------------------------------
(* siteList: a buffered channel of addresses *)

\* a nil channel: no send and no receive on it can ever proceed
NilChan == [id |-> 0, cap |-> 0, buf |-> Empty]

\* make(chan string, size); id tells one allocation from another
make(size, id) == [id |-> id, cap |-> size, buf |-> Empty]

\* initIfNecessary without the nil test: every call makes a new channel
initIfNecessary_Always(q, size) == [q EXCEPT !.ch = make(size, 1)]

initIfNecessary(q, size) ==
    IF q.ch = NilChan
    THEN [q EXCEPT !.ch = make(size, 1)]
    ELSE q

\* add without the default branch taken on a full channel: the list grows
add_NoCap(q, addr) ==
    IF q.ch # NilChan
    THEN [q EXCEPT !.ch.buf = Append(@, addr)]
    ELSE q

\* add that makes room by dropping the oldest entry
add_Evict(q, addr) ==
    IF q.ch = NilChan THEN q
    ELSE IF Len(q.ch.buf) < q.ch.cap
    THEN [q EXCEPT !.ch.buf = Append(@, addr)]
    ELSE [q EXCEPT !.ch.buf = Append(Tail(@), addr)]

\* add that puts the entry in front of the resident ones
add_Front(q, addr) ==
    IF q.ch # NilChan /\ Len(q.ch.buf) < q.ch.cap
    THEN [q EXCEPT !.ch.buf = <<addr>> \o @]
    ELSE q

\* select { case q.ch <- addr: default: }
add(q, addr) ==
    IF q.ch # NilChan /\ Len(q.ch.buf) < q.ch.cap
    THEN [q EXCEPT !.ch.buf = Append(@, addr)]
    ELSE q

\* get whose default branch yields a placeholder instead of ""
get_Placeholder(q) ==
    IF q.ch # NilChan /\ Len(q.ch.buf) > 0
    THEN [q |-> [q EXCEPT !.ch.buf = Tail(@)], addr |-> Head(q.ch.buf)]
    ELSE [q |-> q, addr |-> <<"p", "i", "n", "g">>]

\* get that reads the oldest entry and leaves it in the channel
get_Peek(q) ==
    IF q.ch # NilChan /\ Len(q.ch.buf) > 0
    THEN [q |-> q, addr |-> Head(q.ch.buf)]
    ELSE [q |-> q, addr |-> Empty]

\* select { case addr = <-q.ch: default: }; addr stays "" on the default branch
get(q) ==
    IF q.ch # NilChan /\ Len(q.ch.buf) > 0
    THEN [q |-> [q EXCEPT !.ch.buf = Tail(@)], addr |-> Head(q.ch.buf)]
    ELSE [q |-> q, addr |-> Empty]

\* the select of add without its default branch: a send that waits for room
addCases_NoDefault(q) ==
    IF q.ch # NilChan /\ Len(q.ch.buf) < q.ch.cap THEN {"send"} ELSE {}

\* the branches the select of add can take: the send when the channel has
\* room, else the default; a select none of whose branches can run blocks
addCases(q) ==
    IF q.ch # NilChan /\ Len(q.ch.buf) < q.ch.cap THEN {"send"} ELSE {"default"}

\* the select of get without its default branch: a receive that waits for an entry
getCases_NoDefault(q) ==
    IF q.ch # NilChan /\ Len(q.ch.buf) > 0 THEN {"recv"} ELSE {}

\* the branches the select of get can take
getCases(q) ==
    IF q.ch # NilChan /\ Len(q.ch.buf) > 0 THEN {"recv"} ELSE {"default"}

----------------------------------------------------------------------------
(* ChainedServerInfo *)

\* names with a registered dial factory (the registry is built outside chained.go)
pluggableTransports == {"", "obfs4"}

\* transport names a configuration may carry
TransportNames == {"", "unknown"}

isInternalSite(host) ==
    \E i \in 1..Len(internalSiteSuffixes) : HasSuffix(host, internalSiteSuffixes[i])

\* addCheckTarget that takes any port ending in 80
addCheckTarget_PortSuffix(srv, addr) ==
    LET hp == SplitHostPort(addr)
    IN  IF hp.e THEN srv
        ELSE IF ~HasSuffix(hp.port, Port80) THEN srv
        ELSE IF isInternalSite(hp.host) THEN srv
        ELSE [srv EXCEPT !.checkTargets = add(@, addr)]

addCheckTarget(srv, addr) ==
    LET hp == SplitHostPort(addr)
    IN  IF hp.e THEN srv
        ELSE IF hp.port # Port80 THEN srv
        ELSE IF isInternalSite(hp.host) THEN srv
        ELSE [srv EXCEPT !.checkTargets = add(@, addr)]

\* check that forgets timedOut
checkResult_IgnoreTimeout(timedOut, ok) == ok

\* lines 133-139: the URL check() probes
PingURL ==
    <<"h","t","t","p",":","/","/","p","i","n","g","-","c","h","a","i","n","e","d",
      "-","s","e","r","v","e","r">>

checkURL(checkTarget) ==
    IF checkTarget = Empty
    THEN PingURL
    ELSE <<"h","t","t","p",":","/","/">> \o checkTarget
            \o <<"/","i","n","d","e","x",".","h","t","m","l">>

\* http.NewRequest fails when the URL does not parse: a host with a blank in it
NewRequestErr(url) == \E i \in 1..Len(url) : url[i] = " "

\* the value check returns: !timedOut && ok.(bool)
checkResult(timedOut, ok) == ~timedOut /\ ok

\* reachable with the comparison off by one
reachable_Le(resp) == ~resp.err /\ resp.StatusCode <= ReachableBelow

\* what the function run under withtimeout.Do returns for a RoundTrip result
reachable(resp) == ~resp.err /\ resp.StatusCode < ReachableBelow

----------------------------------------------------------------------------
(* http.Header and the headers of a chained request *)

AuthTokenHeader == "X-LANTERN-AUTH-TOKEN"
DeviceIDHeader  == "X-LANTERN-DEVICE-ID"
PingHeader      == "X-Lantern-Ping"

\* textproto.CanonicalMIMEHeaderKey on the three names the code uses: the first
\* letter and every letter after a hyphen in upper case, the others in lower case
CanonicalMIMEHeaderKey(key) ==
    CASE key = "X-LANTERN-AUTH-TOKEN" -> "X-Lantern-Auth-Token"
      [] key = "X-LANTERN-DEVICE-ID"  -> "X-Lantern-Device-Id"
      [] key = "X-Lantern-Ping"       -> "X-Lantern-Ping"

HeaderKeys == {"X-Lantern-Auth-Token", "X-Lantern-Device-Id", "X-Lantern-Ping"}

\* an http.Header: the values under each canonical key, <<>> when the key is absent
NoHeader == [k \in HeaderKeys |-> <<>>]

\* Header.Add appends to the values of the key; Header.Set replaces them
HeaderAdd(h, key, value) == [h EXCEPT ![CanonicalMIMEHeaderKey(key)] = Append(@, value)]
HeaderSet(h, key, value) == [h EXCEPT ![CanonicalMIMEHeaderKey(key)] = <<value>>]

\* Header.Get: the first value of the key, "" when there is none
HeaderGet(h, key) ==
    LET v == h[CanonicalMIMEHeaderKey(key)]
    IN  IF v = <<>> THEN "" ELSE v[1]

\* attachHeaders that lets the server's own token win over the override
attachHeaders_ServerFirst(srv, force, r, deviceID) ==
    LET authToken == IF srv.AuthToken # "" THEN srv.AuthToken ELSE force
        h == IF authToken # ""
             THEN HeaderAdd(r.Header, AuthTokenHeader, authToken)
             ELSE r.Header
    IN  [r EXCEPT !.Header = HeaderSet(h, DeviceIDHeader, deviceID)]

\* attachHeaders(req, deviceID) on server srv while ForceAuthToken is force
attachHeaders(srv, force, r, deviceID) ==
    LET authToken == IF force # "" THEN force ELSE srv.AuthToken
        h == IF authToken # ""
             THEN HeaderAdd(r.Header, AuthTokenHeader, authToken)
             ELSE r.Header
    IN  [r EXCEPT !.Header = HeaderSet(h, DeviceIDHeader, deviceID)]

\* http.NewRequest("HEAD", url, nil) when it succeeds: no header yet
NewRequest(url) == [url |-> url, Header |-> NoHeader]

\* checkRequest that marks every probe as a ping
checkRequest_PingAlways(srv, force, checkTarget, deviceID) ==
    attachHeaders(srv, force,
                  [NewRequest(checkURL(checkTarget))
                      EXCEPT !.Header = HeaderSet(@, PingHeader, "small")],
                  deviceID)

\* lines 133-149: the request check() sends for the target it popped
checkRequest(srv, force, checkTarget, deviceID) ==
    LET r0 == NewRequest(checkURL(checkTarget))
        r1 == IF checkTarget = Empty
              THEN [r0 EXCEPT !.Header = HeaderSet(@, PingHeader, "small")]
              ELSE r0
    IN  attachHeaders(srv, force, r1, deviceID)

----------------------------------------------------------------------------
(* Inputs *)

A80  == <<"a", ":", "8", "0">>
B80  == <<"b", ":", "8", "0">>
A443 == <<"a", ":", "4", "4", "3">>
Ip80 == <<"1", ".", "2", ".", "3", ".", "4", ":", "8", "0">>
Ip443 == <<"1", ".", "2", ".", "3", ".", "4", ":", "4", "4", "3">>
SubGetlantern80 == <<"s", "u", "b", ".", "g", "e", "t", "l", "a", "n", "t", "e", "r", "n", ".", "o", "r", "g", ":", "8", "0">>
Getiantem80 == <<"g", "e", "t", "i", "a", "n", "t", "e", "m", ".", "o", "r", "g", ":", "8", "0">>
Blank80 == <<"a", " ", "b", ":", "8", "0">>
Internal80 == <<"x", ".", "l", "a", "n", "t", "e", "r", "n", ".", "i", "o", ":", "8", "0">>
SuffixInside80 == <<"l", "a", "n", "t", "e", "r", "n", ".", "i", "o", ".", "x", ":", "8", "0">>
TrailingDot80 == <<"g", "e", "t", "l", "a", "n", "t", "e", "r", "n", ".", "o", "r", "g", ".", ":", "8", "0">>
A080 == <<"a", ":", "0", "8", "0">>
A8080 == <<"a", ":", "8", "0", "8", "0">>
NoPort == <<"a">>
TwoColons80 == <<"a", ":", "b", ":", "8", "0">>
V6Loopback80 == <<"[", ":", ":", "1", "]", ":", "8", "0">>
V6Open80 == <<"[", ":", ":", "1", ":", "8", "0">>
NoHost80 == <<":", "8", "0">>

\* ten plain HTTP sites, a:80 to j:80
Sites ==
    [i \in 1..10 |->
        <<(<<"a", "b", "c", "d", "e", "f", "g", "h", "i", "j">>)[i], ":", "8", "0">>]

\* addresses the balancer dials
DialAddrs == {A80, B80, Internal80}

\* addresses addCheckTarget is tried on, one call each
AddrInputs ==
    {A80, B80, A443, Empty, Blank80, Ip80, Ip443, SubGetlantern80, Getiantem80, Internal80, SuffixInside80, TrailingDot80, A080, A8080, NoPort, TwoColons80, V6Loopback80, V6Open80, NoHost80}

\* tokens and device identifiers
AuthTokens == {"", "T"}
ForcedTokens == {"", "O"}
DeviceIDs == {"d1", "d2"}
\* the device identifier the dialers of the server are built with
DeviceID == "d1"

StatusCodes == {499, 500}

\* results of rt.RoundTrip: a transport error, or a response with a status code
RoundTrips ==
    {[err |-> TRUE, StatusCode |-> 0]} \cup
    {[err |-> FALSE, StatusCode |-> c] : c \in StatusCodes}

NoResp == [err |-> FALSE, StatusCode |-> 0]

----------------------------------------------------------------------------
(* Observations *)

\* no request: none built, none handed to OnRequest
NoReq == NewRequest(Empty)

\* ev: the step that ran last. op: the call; addr: the address it passed to
\* addCheckTarget or pushed back with add; outcome: how the external call it made ended (dialFactory,
\* the chained dial); resp: what rt.RoundTrip gave; ret: what the caller got
\* back; timedOut: withtimeout.Do had given up on this check; req: the
\* request check() built for the target it popped
NoEv == [op |-> "none", addr |-> Empty, ret |-> "", timedOut |-> FALSE,
         outcome |-> "", resp |-> NoResp, req |-> NoReq]

Ev(op, addr, ret) == [NoEv EXCEPT !.op = op, !.addr = addr, !.ret = ret]

Bool(b) == IF b THEN "true" ELSE "false"

buf == s.checkTargets.ch.buf

waiting == {c \in BagToSet(checks) : c.caller}
orphans == {c \in BagToSet(checks) : ~c.caller}
\* how many of the activations in flight are in set
Count(set) == BagCardinality([c \in set |-> checks[c]])

One(c) == SetToBag({c})

\* occurrences of addresses other than A80, resident or popped by a running check
Others ==
    Cardinality({i \in 1..Len(buf) : buf[i] # A80})
    + Count({c \in BagToSet(checks) : c.checkTarget \notin {Empty, A80}})

----------------------------------------------------------------------------
(* Initial state: a configured server, no dialer built yet *)

Init ==
    /\ s \in [PluggableTransport : TransportNames,
              AuthToken : {"T"},
              checkTargets : {[ch |-> NilChan]}]
    /\ built = FALSE
    /\ checks = EmptyBag
    /\ ev = NoEv
    /\ ForceAuthToken = ""
    /\ req = NoReq
    /\ calls = EmptyBag
    /\ hist = <<>>

----------------------------------------------------------------------------
(* Dialer(deviceID) *)

\* Dialer that initializes the list before it looks up the dial factory
Dialer_InitFirst ==
    IF s.PluggableTransport \notin pluggableTransports
    THEN /\ ev' = Ev("Dialer", Empty, "errNoFactory")
         /\ s' = [s EXCEPT !.checkTargets = initIfNecessary(@, CheckTargetsSize)]
         /\ UNCHANGED <<built, checks, ForceAuthToken, req, calls>>
    ELSE \E factoryErr \in BOOLEAN :
            /\ s' = [s EXCEPT !.checkTargets = initIfNecessary(@, CheckTargetsSize)]
            /\ IF factoryErr
               THEN /\ ev' = [Ev("Dialer", Empty, "errConstruct") EXCEPT !.outcome = "err"]
                    /\ UNCHANGED <<built, checks, ForceAuthToken, req, calls>>
               ELSE /\ built' = TRUE
                    /\ ev' = [Ev("Dialer", Empty, "built") EXCEPT !.outcome = "ok"]
                    /\ UNCHANGED <<checks, ForceAuthToken, req, calls>>

Dialer ==
    IF s.PluggableTransport \notin pluggableTransports
    THEN /\ ev' = Ev("Dialer", Empty, "errNoFactory")
         /\ UNCHANGED <<s, built, checks, ForceAuthToken, req, calls>>
    ELSE \E factoryErr \in BOOLEAN :
            IF factoryErr
            THEN /\ ev' = [Ev("Dialer", Empty, "errConstruct") EXCEPT !.outcome = "err"]
                 /\ UNCHANGED <<s, built, checks, ForceAuthToken, req, calls>>
            ELSE /\ s' = [s EXCEPT !.checkTargets = initIfNecessary(@, CheckTargetsSize)]
                 /\ built' = TRUE
                 /\ ev' = [Ev("Dialer", Empty, "built") EXCEPT !.outcome = "ok"]
                 /\ UNCHANGED <<checks, ForceAuthToken, req, calls>>

----------------------------------------------------------------------------
(* DialFN(network, addr) of the built dialer *)

\* DialFN that records the address before it looks at the dial error
DialFN_AddFirst(addr) ==
    /\ built
    /\ addr = B80 => Others < MaxOther
    /\ s' = addCheckTarget(s, addr)
    /\ \E dialErr \in BOOLEAN :
          IF dialErr
          THEN ev' = [Ev("DialFN", Empty, "err") EXCEPT !.outcome = "err"]
          ELSE ev' = [Ev("DialFN", addr, "conn") EXCEPT !.outcome = "ok"]
    /\ UNCHANGED <<built, checks, ForceAuthToken, req, calls>>

DialFN(addr) ==
    /\ built
    /\ addr = B80 => Others < MaxOther
    /\ \E dialErr \in BOOLEAN :
          IF dialErr
          THEN /\ ev' = [Ev("DialFN", Empty, "err") EXCEPT !.outcome = "err"]
               /\ UNCHANGED s
          ELSE /\ s' = addCheckTarget(s, addr)
               /\ ev' = [Ev("DialFN", addr, "conn") EXCEPT !.outcome = "ok"]
    /\ UNCHANGED <<built, checks, ForceAuthToken, req, calls>>

----------------------------------------------------------------------------
(* check(dial, deviceID) of the built dialer *)

\* lines 129-150: pop a target, build the request (check returns false when
\* that fails), start the bounded call
CheckStart ==
    /\ built
    /\ Count(waiting) < MaxChecks
    /\ LET r == get(s.checkTargets)
       IN  /\ s' = [s EXCEPT !.checkTargets = r.q]
           /\ IF NewRequestErr(checkURL(r.addr))
              THEN /\ checks' = checks
                   /\ ev' = [Ev("check", Empty, "false") EXCEPT !.outcome = "err"]
              ELSE /\ checks' = checks (+) One([checkTarget |-> r.addr, caller |-> TRUE,
                                                done |-> FALSE, ok |-> FALSE])
                   /\ ev' = [Ev("get", Empty, "") EXCEPT
                               !.req = checkRequest(s, ForceAuthToken, r.addr, DeviceID)]
    /\ UNCHANGED <<built, ForceAuthToken, req, calls>>

\* a check that consumes its target
readd_Never(srv, ok, checkTarget) == srv

\* a push back that does not look at the result of the probe
readd_Always(srv, ok, checkTarget) ==
    IF checkTarget # Empty
    THEN [srv EXCEPT !.checkTargets = add(@, checkTarget)]
    ELSE srv

\* the push back with its test of the result inverted
readd_OnFailure(srv, ok, checkTarget) ==
    IF ~ok /\ checkTarget # Empty
    THEN [srv EXCEPT !.checkTargets = add(@, checkTarget)]
    ELSE srv

\* lines 171-174: a reachable real target can be used as check target again
readd(srv, ok, checkTarget) ==
    IF ok /\ checkTarget # Empty
    THEN [srv EXCEPT !.checkTargets = add(@, checkTarget)]
    ELSE srv

\* the address a probe dials: the host of its URL on the HTTP port
probeAddr(checkTarget) ==
    IF checkTarget = Empty
    THEN SubSeq(PingURL, 8, Len(PingURL)) \o <<":">> \o Port80
    ELSE checkTarget

\* a round trip whose transport dials with DialFN instead of the chained
\* dialer d: the address it dials is offered as a check target
RoundTrip_DialFN(c) ==
    /\ c \in BagToSet(checks)
    /\ ~c.done
    /\ \E resp \in RoundTrips :
          LET ok == reachable(resp)
          IN  /\ s' = readd(IF resp.err THEN s
                             ELSE addCheckTarget(s, probeAddr(c.checkTarget)),
                            ok, c.checkTarget)
              /\ checks' = IF c.caller
                           THEN (checks (-) One(c)) (+)
                                One([c EXCEPT !.done = TRUE, !.ok = ok])
                           ELSE checks (-) One(c)
              /\ ev' = [Ev("RoundTrip", IF ok THEN c.checkTarget ELSE Empty, Bool(ok))
                          EXCEPT !.resp = resp, !.timedOut = ~c.caller]
    /\ UNCHANGED <<built, ForceAuthToken, req, calls>>

\* lines 151-176: the function run by withtimeout.Do, in its own goroutine; its
\* result ok waits for the caller, or is dropped when the caller has timed out
RoundTrip(c) ==
    /\ c \in BagToSet(checks)
    /\ ~c.done
    /\ \E resp \in RoundTrips :
          LET ok == reachable(resp)
          IN  /\ s' = readd(s, ok, c.checkTarget)
              /\ checks' = IF c.caller
                           THEN (checks (-) One(c)) (+)
                                One([c EXCEPT !.done = TRUE, !.ok = ok])
                           ELSE checks (-) One(c)
              /\ ev' = [Ev("RoundTrip", IF ok THEN c.checkTarget ELSE Empty, Bool(ok))
                          EXCEPT !.resp = resp, !.timedOut = ~c.caller]
    /\ UNCHANGED <<built, ForceAuthToken, req, calls>>

\* withtimeout.Do hands over the function's result; lines 177-180
CheckReturn(c) ==
    /\ c \in BagToSet(checks)
    /\ c.caller /\ c.done
    /\ checks' = checks (-) One(c)
    /\ ev' = Ev("check", Empty, Bool(checkResult(FALSE, c.ok)))
    /\ UNCHANGED <<s, built, ForceAuthToken, req, calls>>

\* withtimeout.Do gives up after 60 s: timedOut is set and the result is nil
\* (FALSE here); the goroutine keeps running when it has not finished
CheckTimeout(c) ==
    /\ c \in BagToSet(checks)
    /\ c.caller
    /\ IF c.done
       THEN checks' = checks (-) One(c)
       ELSE /\ Count(orphans) < MaxOrphans
            /\ checks' = (checks (-) One(c)) (+) One([c EXCEPT !.caller = FALSE])
    /\ ev' = [Ev("check", Empty, Bool(checkResult(TRUE, c.ok)))
                EXCEPT !.timedOut = TRUE]
    /\ UNCHANGED <<s, built, ForceAuthToken, req, calls>>

----------------------------------------------------------------------------

\* the history variable is of no use here
Next ==
    \/ Dialer /\ UNCHANGED hist
    \/ \E addr \in DialAddrs : DialFN(addr) /\ UNCHANGED hist
    \/ CheckStart /\ UNCHANGED hist
    \/ \E c \in BagToSet(checks) : RoundTrip(c) /\ UNCHANGED hist
    \/ \E c \in BagToSet(checks) : CheckReturn(c) /\ UNCHANGED hist
    \/ \E c \in BagToSet(checks) : CheckTimeout(c) /\ UNCHANGED hist

Spec == Init /\ [][Next]_vars

----------------------------------------------------------------------------
(* addCheckTarget as a function: one call on a list holding n entries *)

InitAddCheckTarget ==
    /\ s \in {[PluggableTransport |-> "", AuthToken |-> "T",
               checkTargets |-> [ch |-> [make(CheckTargetsSize, 1)
                                           EXCEPT !.buf = [i \in 1..n |-> A80]]]] :
              n \in 0..CheckTargetsSize}
    /\ built = TRUE
    /\ checks = EmptyBag
    /\ ev = NoEv
    /\ ForceAuthToken = ""
    /\ req = NoReq
    /\ calls = EmptyBag
    /\ hist = <<>>

addCheckTargetCall(addr) ==
    /\ ev.op = "none"
    /\ s' = addCheckTarget(s, addr)
    /\ ev' = Ev("addCheckTarget", addr, "")
    /\ UNCHANGED <<built, checks, ForceAuthToken, req, calls>>

NextAddCheckTarget == \E addr \in AddrInputs : addCheckTargetCall(addr) /\ UNCHANGED hist

SpecAddCheckTarget == InitAddCheckTarget /\ [][NextAddCheckTarget]_vars

----------------------------------------------------------------------------
(* attachHeaders as a function: the OnRequest callback of a built dialer,     *)
(* called on a request the caller made, once or several times                *)

\* the headers a request may carry when it is handed to OnRequest
RequestHeaders ==
    {[k \in HeaderKeys |->
         CASE k = "X-Lantern-Auth-Token" -> a
           [] k = "X-Lantern-Device-Id"  -> d
           [] k = "X-Lantern-Ping"       -> p] :
       a \in {<<>>, <<"X">>, <<"T">>}, d \in {<<>>, <<"d0">>}, p \in {<<>>, <<"small">>}}

InitAttachHeaders ==
    /\ s \in [PluggableTransport : {""},
              AuthToken : AuthTokens,
              checkTargets : {[ch |-> make(CheckTargetsSize, 1)]}]
    /\ built = TRUE
    /\ checks = EmptyBag
    /\ ev = NoEv
    /\ ForceAuthToken \in ForcedTokens
    /\ req \in {[NewRequest(PingURL) EXCEPT !.Header = h] : h \in RequestHeaders}
    /\ calls = EmptyBag
    /\ hist = <<>>

\* lines 86-88: OnRequest of a dialer built with deviceID; hist: the calls so far
OnRequest(deviceID) ==
    /\ built
    /\ Len(hist) < MaxApply
    /\ req' = attachHeaders(s, ForceAuthToken, req, deviceID)
    /\ ev' = Ev("attachHeaders", Empty, deviceID)
    /\ hist' = Append(hist, deviceID)
    /\ UNCHANGED <<s, built, checks, ForceAuthToken, calls>>

NextAttachHeaders == \E deviceID \in DeviceIDs : OnRequest(deviceID)

SpecAttachHeaders == InitAttachHeaders /\ [][NextAttachHeaders]_vars

----------------------------------------------------------------------------
(* Concurrent callers: Dialer, DialFN and check taken apart at the places     *)
(* where they touch s.checkTargets, so that calls overlap. initIfNecessary   *)
(* reads q.ch (line 207) and writes it (line 208) without synchronization;   *)
(* add and get are one select each.                                          *)

Call(op, addr) == [op |-> op, addr |-> addr]

\* addCheckTarget(addr) gets as far as s.checkTargets.add(addr), line 199
reachesAdd(addr) ==
    LET srv == [PluggableTransport |-> "", AuthToken |-> "",
                checkTargets |-> [ch |-> make(1, 1)]]
    IN  addCheckTarget(srv, addr) # srv

\* lines 59-81 and 207: a Dialer call whose factory succeeded tests q.ch == nil;
\* when the list is initialized the call returns its dialer
DialerTest ==
    /\ s.PluggableTransport \in pluggableTransports
    /\ IF s.checkTargets.ch = NilChan
       THEN /\ BagCardinality(calls) < MaxCalls
            /\ calls' = calls (+) One(Call("init", Empty))
            /\ ev' = Ev("initIfNecessary", Empty, "nil")
            /\ UNCHANGED built
       ELSE /\ built' = TRUE
            /\ ev' = [Ev("Dialer", Empty, "built") EXCEPT !.outcome = "ok"]
            /\ UNCHANGED calls
    /\ UNCHANGED <<s, checks, ForceAuthToken, req>>

\* line 208 and the rest of Dialer: the call that saw nil makes a channel,
\* stores it in q.ch and returns its dialer
DialerMake(c) ==
    /\ c \in BagToSet(calls) /\ c.op = "init"
    /\ s' = [s EXCEPT !.checkTargets.ch = make(CheckTargetsSize, @.id + 1)]
    /\ built' = TRUE
    /\ calls' = calls (-) One(c)
    /\ ev' = [Ev("Dialer", Empty, "built") EXCEPT !.outcome = "ok"]
    /\ UNCHANGED <<checks, ForceAuthToken, req>>

\* lines 94-100 and 183-199: DialFN, its dial succeeded, up to the add
DialFNCall(addr) ==
    /\ built
    /\ IF reachesAdd(addr)
       THEN /\ BagCardinality(calls) < MaxCalls
            /\ calls' = calls (+) One(Call("add", addr))
       ELSE UNCHANGED calls
    /\ ev' = [Ev("DialFN", addr, "") EXCEPT !.outcome = "ok"]
    /\ UNCHANGED <<s, built, checks, ForceAuthToken, req>>

\* lines 212-217: the select of an add in flight
addStep(c) ==
    /\ c \in BagToSet(calls) /\ c.op = "add"
    /\ \E case \in addCases(s.checkTargets) :
          /\ s' = [s EXCEPT !.checkTargets = add(@, c.addr)]
          /\ ev' = Ev("add", c.addr, case)
    /\ calls' = calls (-) One(c)
    /\ UNCHANGED <<built, checks, ForceAuthToken, req>>

\* lines 128-134: check() up to the get
CheckCall ==
    /\ built
    /\ BagCardinality(calls) < MaxCalls
    /\ calls' = calls (+) One(Call("get", Empty))
    /\ ev' = Ev("check", Empty, "")
    /\ UNCHANGED <<s, built, checks, ForceAuthToken, req>>

\* lines 219-225: the select of a get in flight; then lines 135-174: the check
\* probes and, when it found a real target reachable, goes on to add it
getStep(c) ==
    /\ c \in BagToSet(calls) /\ c.op = "get"
    /\ \E case \in getCases(s.checkTargets), ok \in BOOLEAN :
          LET r == get(s.checkTargets)
          IN  /\ s' = [s EXCEPT !.checkTargets = r.q]
              /\ ev' = Ev("get", r.addr, case)
              /\ calls' = IF ok /\ r.addr # Empty
                          THEN (calls (-) One(c)) (+) One(Call("add", r.addr))
                          ELSE calls (-) One(c)
    /\ UNCHANGED <<built, checks, ForceAuthToken, req>>

NextConcurrent ==
    \/ DialerTest /\ UNCHANGED hist
    \/ \E c \in BagToSet(calls) : DialerMake(c) /\ UNCHANGED hist
    \/ \E addr \in {A80, Internal80} : DialFNCall(addr) /\ UNCHANGED hist
    \/ \E c \in BagToSet(calls) : addStep(c) /\ UNCHANGED hist
    \/ CheckCall /\ UNCHANGED hist
    \/ \E c \in BagToSet(calls) : getStep(c) /\ UNCHANGED hist

SpecConcurrent == Init /\ [][NextConcurrent]_vars

----------------------------------------------------------------------------
(* Rotation: k targets resident, no dials, one check at a time, every probe  *)
(* answered with a status below 500 before the time bound. hist keeps the    *)
(* targets the latest checks popped, oldest first.                           *)

InitRotation ==
    /\ s \in {[PluggableTransport |-> "", AuthToken |-> "T",
               checkTargets |-> [ch |-> [make(CheckTargetsSize, 1)
                                           EXCEPT !.buf = SubSeq(Sites, 1, k)]]] :
              k \in 1..CheckTargetsSize}
    /\ built = TRUE
    /\ checks = EmptyBag
    /\ ev = NoEv
    /\ ForceAuthToken = ""
    /\ req = NoReq
    /\ calls = EmptyBag
    /\ hist = <<>>

Latest(seq) == IF Len(seq) > MaxHist THEN Tail(seq) ELSE seq

NextRotation ==
    \/ /\ checks = EmptyBag
       /\ CheckStart
       /\ hist' = IF checks' = EmptyBag THEN hist
                  ELSE Latest(Append(hist,
                          (CHOOSE c \in BagToSet(checks') : TRUE).checkTarget))
    \/ \E c \in BagToSet(checks) :
          RoundTrip(c) /\ ev'.ret = "true" /\ UNCHANGED hist
    \/ \E c \in BagToSet(checks) : CheckReturn(c) /\ UNCHANGED hist

SpecRotation == InitRotation /\ [][NextRotation]_vars

----------------------------------------------------------------------------
(* Properties *)

Range(seq) == {seq[i] : i \in 1..Len(seq)}
Occ(seq, x) == Cardinality({i \in 1..Len(seq) : seq[i] = x})

\* seq2 holds what seq1 holds plus one more occurrence of x
OneMore(seq1, seq2, x) ==
    /\ Range(seq2) = Range(seq1) \cup {x}
    /\ \A y \in Range(seq2) : Occ(seq2, y) = Occ(seq1, y) + (IF y = x THEN 1 ELSE 0)

\* the activation check() starts for a popped target
NewCheck(target) == [checkTarget |-> target, caller |-> TRUE, done |-> FALSE, ok |-> FALSE]

\* C1: once Dialer has initialized it, the list of check targets holds between
\* 0 and 10 entries, whatever dials and checks have run or are running.
C1_AtMostTen ==
    /\ Len(buf) \in 0..10
    /\ built => s.checkTargets.ch # NilChan

\* a full list, with a check in flight, right after one more successful dial
C1_Witness ==
    /\ Len(buf) = 10
    /\ ev.op = "DialFN" /\ ev.ret = "conn" /\ ev.addr = A80
    /\ checks # EmptyBag

\* C2: an add on a list that holds 10 entries (by a successful dial or by a
\* check pushing its target back) changes nothing, and the dial still returns
\* its connection.
C2_FullAddIsNoOp ==
    [][(Len(buf) = 10 /\ ev'.op \in {"DialFN", "RoundTrip"})
          => /\ s' = s
             /\ (ev'.op = "DialFN" /\ ev'.outcome = "ok") => ev'.ret = "conn"]_vars

\* the dial of B80 succeeded on a full list of other entries: B80 was dropped
C2_Witness ==
    /\ Len(buf) = 10
    /\ ev.op = "DialFN" /\ ev.ret = "conn" /\ ev.addr = B80
    /\ B80 \notin Range(buf)

\* C3: a get on an empty list hands check() the empty string and leaves the
\* list empty; the list stops being empty only by an add (a dial or a push back).
C3_EmptyGet ==
    [][/\ (ev'.op = "get" /\ buf = Empty)
            => (s' = s /\ checks' = checks (+) One(NewCheck(Empty)))
       /\ (buf = Empty /\ buf' # Empty) => ev'.op \in {"DialFN", "RoundTrip"}]_vars

\* check() has just popped from an initialized, empty list
C3_Witness ==
    /\ ev.op = "get" /\ buf = Empty /\ built
    /\ NewCheck(Empty) \in BagToSet(checks)

\* C4: every step changes the list by exactly the occurrence it moves: a get
\* that returns a target removes one occurrence of it, which was resident; an
\* add inserts one occurrence unless the list is full; nothing else changes it.
C4_OccurrencesConserved ==
    [][/\ ev'.op = "get" =>
            \E target \in Range(buf) \cup {Empty} :
                /\ checks' = checks (+) One(NewCheck(target))
                /\ IF target = Empty THEN buf' = buf /\ buf = Empty
                   ELSE OneMore(buf', buf, target)
       /\ (ev'.op \in {"DialFN", "RoundTrip"} /\ ev'.addr \in {A80, B80}) =>
            IF Len(buf) < 10 THEN OneMore(buf, buf', ev'.addr) ELSE buf' = buf
       /\ (ev'.op \in {"DialFN", "RoundTrip"} /\ ev'.addr \notin {A80, B80}) => buf' = buf
       /\ (ev'.op = "check" /\ ev'.outcome = "err") =>
            (buf # Empty /\ buf' = Tail(buf) /\ checks' = checks)
       /\ (ev'.op = "check" /\ ev'.outcome # "err") => buf' = buf
       /\ ev'.op = "Dialer" => buf' = buf]_vars

\* a check pops B80 while the goroutine of a timed-out check still holds A80
C4_Witness ==
    /\ ev.op = "get"
    /\ NewCheck(B80) \in BagToSet(checks)
    /\ [NewCheck(A80) EXCEPT !.caller = FALSE] \in BagToSet(checks)
    /\ Len(buf) > 0

\* the addresses among AddrInputs that split into host and port, have port 80
\* and a host ending in none of the internal suffixes (worked out by hand)
Accepted == {A80, B80, Blank80, Ip80, SuffixInside80, TrailingDot80, V6Loopback80, NoHost80}

\* C5: addCheckTarget(addr) appends addr, also when it is resident already, if
\* and only if addr is one of the addresses that split, have port 80 and no
\* internal suffix, and the list is not full; otherwise it changes nothing.
C5_AddCheckTarget ==
    [][ev'.op = "addCheckTarget" =>
          s' = IF ev'.addr \in Accepted /\ Len(buf) < 10
               THEN [s EXCEPT !.checkTargets.ch.buf = Append(@, ev'.addr)]
               ELSE s]_vars

\* 1.2.3.4:80 took the last free place of a list of nine a:80
C5_Witness ==
    /\ ev.op = "addCheckTarget" /\ ev.addr = Ip80
    /\ Len(buf) = 10 /\ buf[10] = Ip80 /\ buf[9] = A80

\* C6: the function run under the time bound yields true exactly for a round
\* trip without error and with a status below 500, and check() returns true
\* exactly when the bound had not expired and that function yielded true; it
\* returns nothing but true or false.
C6_Classification ==
    [][/\ ev'.op = "RoundTrip" =>
            /\ ev'.ret = Bool(~ev'.resp.err /\ ev'.resp.StatusCode < 500)
            /\ ~ev'.timedOut =>
                  \E c \in waiting :
                      /\ ~c.done
                      /\ checks' = (checks (-) One(c)) (+)
                            One([c EXCEPT !.done = TRUE, !.ok = (ev'.ret = "true")])
       /\ ev'.op = "check" =>
            /\ ev'.ret \in {"true", "false"}
            /\ ev'.ret = "true" <=>
                  /\ ~ev'.timedOut
                  /\ \E c \in waiting : c.done /\ c.ok /\ checks' = checks (-) One(c)]_vars

\* a check returned true
C6_Witness == ev.op = "check" /\ ev.ret = "true" /\ ~ev.timedOut

\* C7: a check whose time bound expired returns false; the round trip it left
\* running hands its result to nobody when it completes.
C7_TimeoutIsFalse ==
    [][/\ (ev'.op = "check" /\ ev'.timedOut) =>
            /\ ev'.ret = "false"
            /\ \E c \in waiting :
                  checks' = IF c.done THEN checks (-) One(c)
                            ELSE (checks (-) One(c)) (+) One([c EXCEPT !.caller = FALSE])
       /\ (ev'.op = "RoundTrip" /\ ev'.timedOut) =>
            \E c \in orphans : checks' = checks (-) One(c)]_vars

\* the round trip of a timed-out check completed afterwards, reachable
C7_Witness == ev.op = "RoundTrip" /\ ev.timedOut /\ ev.ret = "true"

\* C8: a round trip that finds a real target reachable appends that target
\* unless the list is full; and a check that runs alone (get, then its round
\* trip, nothing else in flight or in between) leaves the list with the
\* occurrences it had before the get.
C8_PushBack ==
    [][/\ (ev'.op = "RoundTrip" /\ ev'.ret = "true") =>
            \E c \in BagToSet(checks) :
                /\ ~c.done /\ c.caller = ~ev'.timedOut /\ c.checkTarget = ev'.addr
                /\ BagToSet(checks') \subseteq
                      BagToSet(checks) \cup {[c EXCEPT !.done = TRUE, !.ok = TRUE]}
                /\ buf' = IF c.checkTarget # Empty /\ Len(buf) < 10
                          THEN Append(buf, c.checkTarget) ELSE buf
       /\ \A target \in Range(buf) :
            (ev'.op = "get" /\ checks' = checks (+) One(NewCheck(target))) =>
                OneMore(buf', buf, target)
       /\ \A target \in {A80, B80} :
            (/\ ev.op = "get" /\ checks = One(NewCheck(target))
             /\ ev'.op = "RoundTrip" /\ ev'.ret = "true") =>
                OneMore(buf, buf', target)]_vars

\* B80 was popped, found reachable and pushed back behind another entry
C8_Witness ==
    /\ ev.op = "RoundTrip" /\ ev.ret = "true" /\ ev.addr = B80 /\ ~ev.timedOut
    /\ Len(buf) >= 2 /\ buf[Len(buf)] = B80

\* C9: a DialFN call whose chained dial fails returns the error and leaves the
\* server alone; one whose dial succeeds returns the connection after one
\* addCheckTarget of the dialed address (one entry appended for a:80 and b:80
\* when there is room, nothing for the other addresses).
C9_DialFN ==
    [][ev'.op = "DialFN" =>
          IF ev'.outcome = "err"
          THEN ev'.ret = "err" /\ s' = s
          ELSE /\ ev'.ret = "conn" /\ ev'.addr \in DialAddrs
               /\ s' = IF ev'.addr \in {A80, B80} /\ Len(buf) < 10
                       THEN [s EXCEPT !.checkTargets.ch.buf = Append(@, ev'.addr)]
                       ELSE s]_vars

\* a dial failed while the list had entries and room
C9_Witness ==
    /\ ev.op = "DialFN" /\ ev.outcome = "err" /\ ev.ret = "err"
    /\ Len(buf) \in 1..9

\* C10: Dialer returns a dialer exactly when a dial factory is registered for
\* the transport and the factory call succeeds; a Dialer call that returns an
\* error leaves the server, its list included, as it was.
C10_Dialer ==
    [][ev'.op = "Dialer" =>
          /\ ev'.ret \in {"built", "errNoFactory", "errConstruct"}
          /\ ev'.ret = "built" <=>
                (s.PluggableTransport \in pluggableTransports /\ ev'.outcome = "ok")
          /\ ev'.ret # "built" => (s' = s /\ built' = built)]_vars

\* the factory failed on a server whose list no call has initialized
C10_Witness ==
    /\ ev.op = "Dialer" /\ ev.ret = "errConstruct"
    /\ s.checkTargets.ch = NilChan /\ ~built

----------------------------------------------------------------------------
(* Headers *)

\* the token values a request without a token gets, by case: the override
\* "O" when it is set, else the server's token, else none
EffectiveToken ==
    CASE ForceAuthToken = "O" -> <<"O">>
      [] ForceAuthToken = "" /\ s.AuthToken = "T" -> <<"T">>
      [] ForceAuthToken = "" /\ s.AuthToken = "" -> <<>>

C19_Idempotent ==
    [][(ev'.op = "attachHeaders" /\ EffectiveToken # <<>>) =>
          /\ req'.Header["X-Lantern-Auth-Token"] = EffectiveToken
          /\ req'.Header["X-Lantern-Device-Id"] = <<ev'.ret>>]_vars

----------------------------------------------------------------------------
(* Initialization *)

\* C13: a Dialer call on a server whose list is initialized already, whatever
\* it returns and whatever dials and checks ran before or are in flight,
\* leaves the list as it was: the same channel of capacity 10 with the same
\* entries in the same order.
C13_InitIdempotent ==
    [][(ev'.op = "Dialer" /\ s.checkTargets.ch # NilChan) =>
          /\ s' = s
          /\ s'.checkTargets.ch.cap = 10]_vars

\* Dialer built one more dialer while entries were resident and a check ran
C13_Witness ==
    /\ ev.op = "Dialer" /\ ev.ret = "built"
    /\ Len(buf) >= 2 /\ B80 \in Range(buf)
    /\ checks # EmptyBag

\* C12: every add and every get that is in flight can take its step and is
\* finished by it, in every reachable state: with the list empty, partly
\* filled or full, with other calls in flight, also while Dialer calls race.
C12_NeverBlocks ==
    \A c \in BagToSet(calls) :
        /\ c.op = "add" =>
              ENABLED (addStep(c) /\ BagCardinality(calls') = BagCardinality(calls) - 1)
        /\ c.op = "get" =>
              ENABLED (getStep(c) /\ BagCardinality(calls') <= BagCardinality(calls))

\* an add took the default branch on a full list while another add was in flight
C12_Witness ==
    /\ ev.op = "add" /\ ev.ret = "default"
    /\ Len(buf) = 10
    /\ \E c \in BagToSet(calls) : c.op = "add"

\* C20: once the list is initialized and holds entries, no step replaces its
\* channel: overlapping Dialer calls included, the entries stay where
\* the built dialers put them.
C20_InitOnce ==
    [][(s.checkTargets.ch # NilChan /\ buf # Empty) =>
          s'.checkTargets.ch.id = s.checkTargets.ch.id]_vars

----------------------------------------------------------------------------
(* Rotation *)

\* targets resident or held by a check whose probe is in flight
Targets == Len(buf) + Count({c \in BagToSet(checks) : ~c.done})

\* C14: with a:80 the only target, no dials, one check at a time and every
\* probe successful in time: every check pops a:80 and sends its probe to
\* http://a:80/index.html, never to the ping URL; the successful probe puts
\* a:80 back; the check returns true with a:80 the one resident entry; and so
\* for every check, however many there were before.
C14_SingleTarget ==
    [][Targets = 1 =>
          /\ Targets' = 1
          /\ ev'.op = "get" =>
                /\ buf = <<A80>> /\ buf' = Empty
                /\ \A c \in BagToSet(checks') : c.checkTarget = A80
                /\ ev'.req.url = <<"h","t","t","p",":","/","/","a",":","8","0",
                                   "/","i","n","d","e","x",".","h","t","m","l">>
          /\ ev'.op = "RoundTrip" => buf' = <<A80>>
          /\ ev'.op = "check" => (ev'.ret = "true" /\ buf' = <<A80>>)
          /\ \A i \in 1..Len(hist') : hist'[i] = A80]_vars

\* the fifth check in a row returned true and left a:80 resident
C14_Witness ==
    /\ ev.op = "check" /\ ev.ret = "true"
    /\ buf = <<A80>>
    /\ hist = <<A80, A80, A80, A80, A80>>

\* C18: with k distinct targets resident, no dials, one check at a time and
\* every probe successful: a check pops the oldest resident entry, its
\* successful probe puts it back behind all the others, and the probes go
\* round-robin: the latest k probes are the k targets, each once, and every
\* probe is of the target probed k checks before.
C18_RoundRobin ==
    [][/\ ev'.op = "get" =>
            LET k == Len(buf)
                n == Len(hist')
            IN  /\ checks' = One(NewCheck(Head(buf)))
                /\ buf' = Tail(buf)
                /\ hist'[n] = Head(buf)
                /\ n >= k =>
                      /\ {hist'[i] : i \in (n - k + 1)..n} = Range(buf)
                      /\ \A i, j \in (n - k + 1)..n : hist'[i] = hist'[j] => i = j
                /\ \A i \in 1..n : i > k => hist'[i] = hist'[i - k]
       /\ ev'.op = "RoundTrip" =>
            \E c \in BagToSet(checks) : buf' = Append(buf, c.checkTarget)
       /\ ev'.op = "check" => (ev'.ret = "true" /\ buf' = buf)]_vars

\* three targets, the seventh check has just popped a:80 for the third time
C18_Witness ==
    /\ ev.op = "get"
    /\ hist = <<Sites[1], Sites[2], Sites[3], Sites[1], Sites[2], Sites[3], Sites[1]>>
    /\ buf = <<Sites[2], Sites[3]>>

----------------------------------------------------------------------------
(* What a check does with its target *)

\* C15 as claimed: a check that returned false has not pushed its target back
\* when it returns (its round trip did not find the target reachable) and
\* does not push it back afterwards (the round trip a timed-out check left
\* running leaves the list alone).
C15_FalseConsumes ==
    [][/\ (ev'.op = "check" /\ ev'.ret = "false" /\ ev'.outcome # "err") =>
            \E c \in waiting :
                /\ checks' \in {checks (-) One(c),
                                (checks (-) One(c)) (+) One([c EXCEPT !.caller = FALSE])}
                /\ ~(c.done /\ c.ok /\ c.checkTarget # Empty)
       /\ (ev'.op = "RoundTrip" /\ ev'.timedOut) => buf' = buf]_vars

\* C15 amended: the list grows by a round trip only when that round trip
\* found its target reachable; a round trip that did not leaves the server
\* alone; and a check that returns false without its time bound having
\* expired had a round trip that yielded false, is over with its return, and
\* changes nothing by returning: its target stays consumed.
C15_FalseWithoutTimeout ==
    [][/\ (ev'.op = "RoundTrip" /\ buf' # buf) => ev'.ret = "true"
       /\ (ev'.op = "RoundTrip" /\ ev'.ret = "false") =>
            /\ s' = s
            /\ ~ev'.timedOut =>
                  \E c \in waiting :
                      /\ ~c.done
                      /\ checks' = (checks (-) One(c)) (+)
                                      One([c EXCEPT !.done = TRUE, !.ok = FALSE])
       /\ (ev'.op = "check" /\ ev'.ret = "false" /\ ~ev'.timedOut
             /\ ev'.outcome # "err") =>
            /\ s' = s
            /\ \E c \in waiting :
                  c.done /\ ~c.ok /\ checks' = checks (-) One(c)]_vars

\* the probe of b:80 got a 500: b:80 is with the check, not in the list, and
\* the check is about to return false
C15_Witness ==
    /\ ev.op = "RoundTrip" /\ ev.ret = "false" /\ ev.resp.StatusCode = 500
    /\ ~ev.timedOut
    /\ \E c \in waiting : c.done /\ ~c.ok /\ c.checkTarget = B80
    /\ B80 \notin Range(buf) /\ A80 \in Range(buf)

\* C16: the check that a get starts has the empty target exactly when the list
\* was empty; its request then goes to http://ping-chained-server with
\* X-Lantern-Ping: small; otherwise the target is the entry popped and the
\* request goes to http://<target>/index.html without X-Lantern-Ping. The
\* round trip of a check with the empty target leaves the list as it is,
\* whatever it yields.
C16_SyntheticTarget ==
    [][/\ ev'.op = "get" =>
            \E c \in BagToSet(checks') :
                /\ checks' = checks (+) One(c)
                /\ c.checkTarget = Empty <=> buf = Empty
                /\ IF c.checkTarget = Empty
                   THEN /\ ev'.req.url = <<"h","t","t","p",":","/","/","p","i","n","g","-",
                                           "c","h","a","i","n","e","d","-","s","e","r","v","e","r">>
                        /\ ev'.req.Header["X-Lantern-Ping"] = <<"small">>
                   ELSE /\ c.checkTarget = Head(buf)
                        /\ ev'.req.url = <<"h","t","t","p",":","/","/">> \o Head(buf)
                                           \o <<"/","i","n","d","e","x",".","h","t","m","l">>
                        /\ ev'.req.Header["X-Lantern-Ping"] = <<>>
       /\ ev'.op = "RoundTrip" =>
            \A c \in BagToSet(checks) :
                (/\ ~c.done /\ c.checkTarget = Empty
                 /\ checks' = IF c.caller
                              THEN (checks (-) One(c)) (+)
                                   One([c EXCEPT !.done = TRUE, !.ok = (ev'.ret = "true")])
                              ELSE checks (-) One(c))
                   => buf' = buf]_vars

\* a synthetic probe was answered with a status below 500 and the list, which
\* had room, is still empty
C16_Witness ==
    /\ ev.op = "RoundTrip" /\ ev.ret = "true" /\ ev.addr = Empty /\ ~ev.timedOut
    /\ built /\ buf = Empty
    /\ \E c \in waiting : c.done /\ c.ok /\ c.checkTarget = Empty

\* C17: every resident entry is a:80 or b:80 (of the addresses dialed, the
\* ones with port 80 and a host outside the internal suffixes); an address
\* gains an occurrence only by a DialFN call that dialed it successfully or
\* by the round trip of a check that had popped it; and a check pops nothing
\* but a resident entry.
C17_EntriesWereDialed ==
    [][/\ buf' # buf =>
            /\ Range(buf') \subseteq {A80, B80}
            /\ \A x \in Range(buf') :
                  Occ(buf', x) > Occ(buf, x) =>
                      \/ ev'.op = "DialFN" /\ ev'.ret = "conn" /\ ev'.addr = x
                      \/ /\ ev'.op = "RoundTrip" /\ ev'.ret = "true"
                         /\ \E c \in BagToSet(checks) : ~c.done /\ c.checkTarget = x
       /\ ev'.op = "get" =>
            checks' = checks (+) One(NewCheck(IF buf = Empty THEN Empty ELSE Head(buf)))
       /\ ev'.op \in {"RoundTrip", "check"} =>
            {c.checkTarget : c \in BagToSet(checks')}
                \subseteq {c.checkTarget : c \in BagToSet(checks)}
       /\ ev'.op \in {"DialFN", "Dialer"} => checks' = checks]_vars

\* an internal site was dialed successfully and is not resident, next to two
\* entries that were
C17_Witness ==
    /\ ev.op = "DialFN" /\ ev.ret = "conn" /\ ev.addr = Internal80
    /\ buf = <<B80, A80>>

====
